---- MODULE Spec2Model ----
(***************************************************************************)
(* gdb/testsuite/gdb.threads/watchthreads-reorder.c                        *)
(*                                                                         *)
(* The main thread and the two threads it creates are modelled as three    *)
(* sequential processes.  pc[t] is the line of main / threadN_func the     *)
(* thread is at; at[t] is its position inside the function called from     *)
(* that line (timed_mutex_lock, state_wait, cleanup, exit), "-" when it is *)
(* in main / threadN_func itself.  Labels carry the source line numbers;   *)
(* thread2_func is thread1_func with every line shifted by 25, so both     *)
(* workers use the thread1_func labels "w92" .. "w108".                    *)
(*                                                                         *)
(* Outside the program: the debugger process (its /proc state and the      *)
(* signals it gets), the watchpoint trap that parks a traced thread in     *)
(* "T (tracing stop)" until a running debugger resumes it, and the clock.  *)
(* Time is free: a second may pass between any two steps.                  *)
(***************************************************************************)
EXTENDS Integers, Sequences, FiniteSets, TLC

VARIABLES
  standalone,        \* main's local: argv[1] is "-s"
  realTracer,        \* TracerPid: of /proc/self/status (0: not traced)
  pc,                \* per thread: line in main / threadN_func
  at,                \* per thread: position inside the called function
  owner,             \* per mutex: the thread holding it, or "none"
  thread_tid,        \* thread1_tid, thread2_tid
  cond,              \* per worker: state of main's wait on threadN_tid_cond
  tracer,            \* static volatile pid_t tracer
  killArg,           \* main: the value of tracer read as the argument at line 304
  swPid,             \* main: state_wait's parameter process
  tracer_save,       \* per thread: cleanup's local tracer_save
  elapsed,           \* per thread: now.tv_sec - start.tv_sec of its bounded wait
  gdbState,          \* State: of /proc/<tracer>/status
  stopPending,       \* a SIGSTOP was sent to the debugger and has not acted yet
  trapped,           \* per worker: the thread is in "T (tracing stop)"
  signals,           \* the kill () calls made so far, in order
  confirmed,         \* the call sites whose state_wait has returned
  exitCode,          \* per thread: the status it passed to exit (), or "none"
  registered,        \* atexit (cleanup) has been called
  handlerTaken,      \* exit () has started running cleanup from the atexit list
  exitStatus,        \* how the process ended, "none" while it runs
  mono,              \* CLOCK_MONOTONIC, in ticks of 1 / TicksPerSecond s
  start,             \* per thread: timed_mutex_lock's local start, in ticks
  now                \* per thread: timed_mutex_lock's local now, in ticks

\* The clock below the second.  The program reads only tv_sec, and the runs
\* of the whole program count the seconds a wait has seen pass (elapsed); the
\* ticks are kept where the time a wait really took is measured.
fine == <<mono, start, now>>

vars == <<standalone, realTracer, pc, at, owner, thread_tid, cond, tracer, killArg,
          swPid, tracer_save, elapsed, gdbState, stopPending, trapped, signals,
          confirmed, exitCode, registered, handlerTaken, exitStatus, fine>>

----------------------------------------------------------------------------
(* Program constants and the process identifiers of one run.               *)

MainTimeout == 10
WorkerTimeout == 15

ParentPid == 500
OtherPid == 77

Workers == {"thread1", "thread2"}
Threads == {"main"} \cup Workers
Mutexes == {"gdbstop_mutex", "terminate_mutex", "thread1_tid_mutex", "thread2_tid_mutex"}

\* gettid () of each worker
Tid(w) == IF w = "thread1" THEN 1001 ELSE 1002

\* #define TIMEOUT (gettid () == getpid() ? 10 : 15)
TIMEOUT(t) == IF t = "main" THEN MainTimeout ELSE WorkerTimeout

\* threadN_tid_mutex of a worker
TidMutex(w) == IF w = "thread1" THEN "thread1_tid_mutex" ELSE "thread2_tid_mutex"

\* The lines that call timed_mutex_lock, the mutex each names and the line after.
LockSites == {"m270", "m272", "m309", "m310", "w97", "w104"}

LockMutex(p) ==
  CASE p = "m270" -> "gdbstop_mutex"
    [] p = "m272" -> "terminate_mutex"
    [] p = "m309" -> "thread1_tid_mutex"
    [] p = "m310" -> "thread2_tid_mutex"
    [] p = "w97"  -> "gdbstop_mutex"
    [] p = "w104" -> "terminate_mutex"

LockRet(p) ==
  CASE p = "m270" -> "m272"
    [] p = "m272" -> "m274"
    [] p = "m309" -> "m310"
    [] p = "m310" -> "m313"
    [] p = "w97"  -> "w98"
    [] p = "w104" -> "w105"

\* The lines that call state_wait, the state each wants and the line after.
WaitSites == {"m306", "m344", "m346"}

Wanted(p) == IF p = "m306" THEN "T (stopped)" ELSE "T (tracing stop)"

WaitRet(p) ==
  CASE p = "m306" -> "m309"
    [] p = "m344" -> "m346"
    [] p = "m346" -> "m349"

\* The positions inside timed_mutex_lock and state_wait where the clock runs.
InBoundedWait(t) == at[t] \in {"l71", "l76", "s213", "s220"}

\* State: of /proc/<pid>/status, "" when there is no such file.
ProcState(pid) ==
  IF pid # 0 /\ pid = realTracer THEN gdbState
  ELSE IF \E w \in Workers : pid = Tid(w)
       THEN IF trapped[CHOOSE w \in Workers : pid = Tid(w)]
            THEN "T (tracing stop)" ELSE "R (running)"
       ELSE ""

Alive == exitStatus = "none"

\* A thread can take a step: the process runs and the thread is not parked.
Runs(t) == Alive /\ (t \in Workers => ~trapped[t])

----------------------------------------------------------------------------
Init ==
  /\ standalone \in BOOLEAN
  /\ realTracer \in {0, ParentPid, OtherPid}
  /\ pc = [t \in Threads |-> IF t = "main" THEN "m270" ELSE "new"]
  /\ at = [t \in Threads |-> "-"]
  /\ owner = [m \in Mutexes |-> "none"]
  /\ thread_tid = [w \in Workers |-> 0]
  /\ cond = [w \in Workers |-> "idle"]
  /\ tracer = 0
  /\ killArg = 0
  /\ swPid = 0
  /\ tracer_save = [t \in Threads |-> 0]
  /\ elapsed = [t \in Threads |-> 0]
  /\ gdbState = "S (sleeping)"
  /\ stopPending = FALSE
  /\ trapped = [w \in Workers |-> FALSE]
  /\ signals = <<>>
  /\ confirmed = {}
  /\ exitCode = [t \in Threads |-> "none"]
  /\ registered = FALSE
  /\ handlerTaken = FALSE
  /\ exitStatus = "none"
  /\ mono = 0
  /\ start = [t \in Threads |-> 0]
  /\ now = [t \in Threads |-> 0]

----------------------------------------------------------------------------
(* Library calls.                                                          *)

\* kill (pid, sig): the call is recorded; a signal to the debugger acts on it.
\* SIGSTOP stops it a moment later (TracerStops), SIGCONT resumes it at once
\* and discards a stop signal that has not acted yet.
Kill(t, pid, sig) ==
  /\ signals' = Append(signals, [pid |-> pid, sig |-> sig, by |-> t])
  /\ IF pid # 0 /\ pid = realTracer
     THEN IF sig = "SIGSTOP"
          THEN /\ stopPending' = (gdbState # "T (stopped)")
               /\ gdbState' = gdbState
          ELSE /\ stopPending' = FALSE
               /\ gdbState' = "S (sleeping)"
     ELSE UNCHANGED <<stopPending, gdbState>>

\* exit (status) is entered: the atexit handlers run next, in this thread.
BeginExit(t, status) ==
  /\ at' = [at EXCEPT ![t] = "exit"]
  /\ exitCode' = [exitCode EXCEPT ![t] = status]
  /\ elapsed' = [elapsed EXCEPT ![t] = 0]

\* A failed assert: abort () ends the process by SIGABRT; no atexit handler runs.
Abort == exitStatus' = "abort"

----------------------------------------------------------------------------
(* timed_mutex_lock, lines 61-84.                                          *)

\* line 66: the call, and the clock read into start
LockStart(t) ==
  /\ Runs(t) /\ at[t] = "-" /\ pc[t] \in LockSites
  /\ at' = [at EXCEPT ![t] = "l71"]
  /\ elapsed' = [elapsed EXCEPT ![t] = 0]
  /\ UNCHANGED <<fine, standalone, realTracer, pc, owner, thread_tid, cond, tracer, killArg,
                 swPid, tracer_save, gdbState, stopPending, trapped, signals,
                 confirmed, exitCode, registered, handlerTaken, exitStatus>>

\* timed_mutex_lock with a trylock that succeeds on a mutex another thread
\* holds.
TryLockSteals(t) ==
  /\ Runs(t) /\ at[t] = "l71"
  /\ owner' = [owner EXCEPT ![LockMutex(pc[t])] = t]
  /\ at' = [at EXCEPT ![t] = "-"]
  /\ pc' = [pc EXCEPT ![t] = LockRet(pc[t])]
  /\ elapsed' = [elapsed EXCEPT ![t] = 0]
  /\ UNCHANGED <<fine, standalone, realTracer, thread_tid, cond, tracer, killArg,
                 swPid, tracer_save, gdbState, stopPending, trapped, signals,
                 confirmed, exitCode, registered, handlerTaken, exitStatus>>

\* lines 71-74: pthread_mutex_trylock; 0 returns to the caller, EBUSY goes on
TryLock(t) ==
  /\ Runs(t) /\ at[t] = "l71"
  /\ IF owner[LockMutex(pc[t])] = "none"
     THEN /\ owner' = [owner EXCEPT ![LockMutex(pc[t])] = t]
          /\ at' = [at EXCEPT ![t] = "-"]
          /\ pc' = [pc EXCEPT ![t] = LockRet(pc[t])]
          /\ elapsed' = [elapsed EXCEPT ![t] = 0]
     ELSE /\ at' = [at EXCEPT ![t] = "l76"]
          /\ UNCHANGED <<owner, pc, elapsed>>
  /\ UNCHANGED <<fine, standalone, realTracer, thread_tid, cond, tracer, killArg,
                 swPid, tracer_save, gdbState, stopPending, trapped, signals,
                 confirmed, exitCode, registered, handlerTaken, exitStatus>>

\* lines 76-80: the clock read into now and the loop test
LockClock(t) ==
  /\ Runs(t) /\ at[t] = "l76"
  /\ IF elapsed[t] < TIMEOUT(t)
     THEN /\ at' = [at EXCEPT ![t] = "l71"]
          /\ elapsed' = elapsed
     ELSE /\ at' = [at EXCEPT ![t] = "l82"]
          /\ elapsed' = [elapsed EXCEPT ![t] = 0]
  /\ UNCHANGED <<fine, standalone, realTracer, pc, owner, thread_tid, cond, tracer, killArg,
                 swPid, tracer_save, gdbState, stopPending, trapped, signals,
                 confirmed, exitCode, registered, handlerTaken, exitStatus>>

\* lines 82-83: "Timed out waiting for internal lock!", exit (EXIT_FAILURE)
LockTimedOut(t) ==
  /\ Runs(t) /\ at[t] = "l82"
  /\ BeginExit(t, "failure")
  /\ UNCHANGED <<fine, standalone, realTracer, pc, owner, thread_tid, cond, tracer, killArg,
                 swPid, tracer_save, gdbState, stopPending, trapped, signals,
                 confirmed, registered, handlerTaken, exitStatus>>

----------------------------------------------------------------------------
(* thread1_func, lines 86-109, and thread2_func, lines 111-134.            *)

\* The worker with the assignment of line 92 lost: it signals without having
\* stored its identifier.
PublishNothing(w) ==
  /\ Runs(w) /\ at[w] = "-" /\ pc[w] = "w92"
  /\ pc' = [pc EXCEPT ![w] = "w93"]
  /\ UNCHANGED <<fine, standalone, realTracer, at, owner, thread_tid, cond, tracer, killArg,
                 swPid, tracer_save, elapsed, gdbState, stopPending, trapped, signals,
                 confirmed, exitCode, registered, handlerTaken, exitStatus>>

\* line 92: threadN_tid = gettid ()
Publish(w) ==
  /\ Runs(w) /\ at[w] = "-" /\ pc[w] = "w92"
  /\ thread_tid' = [thread_tid EXCEPT ![w] = Tid(w)]
  /\ pc' = [pc EXCEPT ![w] = "w93"]
  /\ UNCHANGED <<fine, standalone, realTracer, at, owner, cond, tracer, killArg,
                 swPid, tracer_save, elapsed, gdbState, stopPending, trapped, signals,
                 confirmed, exitCode, registered, handlerTaken, exitStatus>>

\* lines 93-94: pthread_cond_signal wakes main if it is blocked in the wait,
\* and does nothing otherwise
Signal(w) ==
  /\ Runs(w) /\ at[w] = "-" /\ pc[w] = "w93"
  /\ cond' = [cond EXCEPT ![w] = IF @ = "blocked" THEN "signalled" ELSE @]
  /\ pc' = [pc EXCEPT ![w] = "w97"]
  /\ UNCHANGED <<fine, standalone, realTracer, at, owner, thread_tid, tracer, killArg,
                 swPid, tracer_save, elapsed, gdbState, stopPending, trapped, signals,
                 confirmed, exitCode, registered, handlerTaken, exitStatus>>

\* pthread_mutex_unlock of an error-checking mutex and the assert on its result:
\* EPERM, and so abort (), when the caller is not the holder
Unlock(t, m, next) ==
  IF owner[m] = t
  THEN /\ owner' = [owner EXCEPT ![m] = "none"]
       /\ pc' = [pc EXCEPT ![t] = next]
       /\ UNCHANGED exitStatus
  ELSE /\ Abort
       /\ UNCHANGED <<owner, pc>>

\* The worker with the unlock of line 98 or 105 lost: it goes on and keeps
\* the mutex.
WorkerKeepsLock(w) ==
  /\ Runs(w) /\ at[w] = "-" /\ pc[w] \in {"w98", "w105"}
  /\ pc' = [pc EXCEPT ![w] = IF pc[w] = "w98" THEN "w101" ELSE "w108"]
  /\ UNCHANGED <<fine, standalone, realTracer, at, owner, thread_tid, cond, tracer, killArg,
                 swPid, tracer_save, elapsed, gdbState, stopPending, trapped, signals,
                 confirmed, exitCode, registered, handlerTaken, exitStatus>>

\* lines 98-99 and 105-106
WorkerUnlock(w) ==
  /\ Runs(w) /\ at[w] = "-" /\ pc[w] \in {"w98", "w105"}
  /\ IF pc[w] = "w98" THEN Unlock(w, "gdbstop_mutex", "w101")
                      ELSE Unlock(w, "terminate_mutex", "w108")
  /\ UNCHANGED <<fine, standalone, realTracer, at, thread_tid, cond, tracer, killArg,
                 swPid, tracer_save, elapsed, gdbState, stopPending, trapped, signals,
                 confirmed, exitCode, registered, handlerTaken>>

\* line 101: rwatch_store = threadN_rwatch.  Under a debugger the read hits the
\* watchpoint and the thread stops in "T (tracing stop)".
ReadWatch(w) ==
  /\ Runs(w) /\ at[w] = "-" /\ pc[w] = "w101"
  /\ trapped' = [trapped EXCEPT ![w] = (realTracer # 0)]
  /\ pc' = [pc EXCEPT ![w] = "w104"]
  /\ UNCHANGED <<fine, standalone, realTracer, at, owner, thread_tid, cond, tracer, killArg,
                 swPid, tracer_save, elapsed, gdbState, stopPending, signals,
                 confirmed, exitCode, registered, handlerTaken, exitStatus>>

\* line 108: return NULL
WorkerReturn(w) ==
  /\ Runs(w) /\ at[w] = "-" /\ pc[w] = "w108"
  /\ pc' = [pc EXCEPT ![w] = "done"]
  /\ UNCHANGED <<fine, standalone, realTracer, at, owner, thread_tid, cond, tracer, killArg,
                 swPid, tracer_save, elapsed, gdbState, stopPending, trapped, signals,
                 confirmed, exitCode, registered, handlerTaken, exitStatus>>

----------------------------------------------------------------------------
(* state_wait, lines 197-235, with proc_string, lines 136-177.             *)

\* The call: the argument process is read where the call is made (tracer at
\* line 306, thread1_tid at 344, thread2_tid at 346).
CallStateWait ==
  /\ Runs("main") /\ at["main"] = "-" /\ pc["main"] \in WaitSites
  /\ swPid' = CASE pc["main"] = "m306" -> tracer
                [] pc["main"] = "m344" -> thread_tid["thread1"]
                [] pc["main"] = "m346" -> thread_tid["thread2"]
  /\ at' = [at EXCEPT !["main"] = "s205"]
  /\ UNCHANGED <<fine, standalone, realTracer, pc, owner, thread_tid, cond, tracer, killArg,
                 tracer_save, elapsed, gdbState, stopPending, trapped, signals,
                 confirmed, exitCode, registered, handlerTaken, exitStatus>>

\* lines 205-209: asprintf of the file name, which fails when memory is short
\* (assert (i > 0)), and the clock read into start
StateWaitStart ==
  /\ Runs("main") /\ at["main"] = "s205"
  /\ \E ok \in BOOLEAN :
       IF ok
       THEN /\ at' = [at EXCEPT !["main"] = "s213"]
            /\ elapsed' = [elapsed EXCEPT !["main"] = 0]
            /\ UNCHANGED exitStatus
       ELSE /\ Abort
            /\ UNCHANGED <<at, elapsed>>
  /\ UNCHANGED <<fine, standalone, realTracer, pc, owner, thread_tid, cond, tracer, killArg,
                 swPid, tracer_save, gdbState, stopPending, trapped, signals,
                 confirmed, exitCode, registered, handlerTaken>>

\* state_wait with the comparison of line 214 lost: it returns on the first
\* State: it reads.
StateWaitPollAny ==
  /\ Runs("main") /\ at["main"] = "s213"
  /\ IF ProcState(swPid) = ""
     THEN /\ BeginExit("main", "failure")
          /\ UNCHANGED <<pc, confirmed>>
     ELSE /\ at' = [at EXCEPT !["main"] = "-"]
          /\ pc' = [pc EXCEPT !["main"] = WaitRet(pc["main"])]
          /\ confirmed' = confirmed \cup {pc["main"]}
          /\ elapsed' = [elapsed EXCEPT !["main"] = 0]
          /\ UNCHANGED exitCode
  /\ UNCHANGED <<fine, standalone, realTracer, owner, thread_tid, cond, tracer, killArg,
                 swPid, tracer_save, gdbState, stopPending, trapped, signals,
                 registered, handlerTaken, exitStatus>>

\* lines 213-218: proc_string reads State: (exit (EXIT_FAILURE) when fopen
\* fails); a match returns to the caller
StateWaitPoll ==
  /\ Runs("main") /\ at["main"] = "s213"
  /\ IF ProcState(swPid) = ""
     THEN /\ BeginExit("main", "failure")
          /\ UNCHANGED <<pc, confirmed>>
     ELSE IF ProcState(swPid) = Wanted(pc["main"])
     THEN /\ at' = [at EXCEPT !["main"] = "-"]
          /\ pc' = [pc EXCEPT !["main"] = WaitRet(pc["main"])]
          /\ confirmed' = confirmed \cup {pc["main"]}
          /\ elapsed' = [elapsed EXCEPT !["main"] = 0]
          /\ UNCHANGED exitCode
     ELSE /\ at' = [at EXCEPT !["main"] = "s220"]
          /\ UNCHANGED <<pc, confirmed, elapsed, exitCode>>
  /\ UNCHANGED <<fine, standalone, realTracer, owner, thread_tid, cond, tracer, killArg,
                 swPid, tracer_save, gdbState, stopPending, trapped, signals,
                 registered, handlerTaken, exitStatus>>

\* lines 220-230: sched_yield, the clock read into now and the loop test
StateWaitClock ==
  /\ Runs("main") /\ at["main"] = "s220"
  /\ IF elapsed["main"] < TIMEOUT("main")
     THEN /\ at' = [at EXCEPT !["main"] = "s213"]
          /\ elapsed' = elapsed
     ELSE /\ at' = [at EXCEPT !["main"] = "s232"]
          /\ elapsed' = [elapsed EXCEPT !["main"] = 0]
  /\ UNCHANGED <<fine, standalone, realTracer, pc, owner, thread_tid, cond, tracer, killArg,
                 swPid, tracer_save, gdbState, stopPending, trapped, signals,
                 confirmed, exitCode, registered, handlerTaken, exitStatus>>

\* lines 232-234: "Timed out waiting for PID ...", exit (EXIT_FAILURE)
StateWaitTimedOut ==
  /\ Runs("main") /\ at["main"] = "s232"
  /\ BeginExit("main", "failure")
  /\ UNCHANGED <<fine, standalone, realTracer, pc, owner, thread_tid, cond, tracer, killArg,
                 swPid, tracer_save, gdbState, stopPending, trapped, signals,
                 confirmed, registered, handlerTaken, exitStatus>>

----------------------------------------------------------------------------
(* cleanup, lines 240-255.  tracer is volatile: every mention is a read of *)
(* the shared variable, and another thread may run between two of them.    *)

\* line 245: if (tracer); when it is 0 cleanup returns, to main after the call
\* of line 349 or into exit () when it runs as the atexit handler
CleanupReturn(t) ==
  IF exitCode[t] # "none"
  THEN /\ at' = [at EXCEPT ![t] = "_exit"]
       /\ pc' = pc
  ELSE /\ at' = [at EXCEPT ![t] = "-"]
       /\ pc' = [pc EXCEPT ![t] = "m353"]

CleanupTest(t) ==
  /\ Runs(t) /\ at[t] = "c245"
  /\ IF tracer # 0
     THEN /\ at' = [at EXCEPT ![t] = "c248"]
          /\ pc' = pc
     ELSE CleanupReturn(t)
  /\ UNCHANGED <<fine, standalone, realTracer, owner, thread_tid, cond, tracer, killArg,
                 swPid, tracer_save, elapsed, gdbState, stopPending, trapped, signals,
                 confirmed, exitCode, registered, handlerTaken, exitStatus>>

\* line 248: int tracer_save = tracer
CleanupSave(t) ==
  /\ Runs(t) /\ at[t] = "c248"
  /\ tracer_save' = [tracer_save EXCEPT ![t] = tracer]
  /\ at' = [at EXCEPT ![t] = "c250"]
  /\ UNCHANGED <<fine, standalone, realTracer, pc, owner, thread_tid, cond, tracer, killArg,
                 swPid, elapsed, gdbState, stopPending, trapped, signals,
                 confirmed, exitCode, registered, handlerTaken, exitStatus>>

\* cleanup with the assignment of line 250 lost: tracer keeps its value.
CleanupKeepsTracer(t) ==
  /\ Runs(t) /\ at[t] = "c250"
  /\ at' = [at EXCEPT ![t] = "c252"]
  /\ UNCHANGED <<fine, standalone, realTracer, pc, owner, thread_tid, cond, tracer, killArg,
                 swPid, tracer_save, elapsed, gdbState, stopPending, trapped, signals,
                 confirmed, exitCode, registered, handlerTaken, exitStatus>>

\* line 250: tracer = 0
CleanupClear(t) ==
  /\ Runs(t) /\ at[t] = "c250"
  /\ tracer' = 0
  /\ at' = [at EXCEPT ![t] = "c252"]
  /\ UNCHANGED <<fine, standalone, realTracer, pc, owner, thread_tid, cond, killArg,
                 swPid, tracer_save, elapsed, gdbState, stopPending, trapped, signals,
                 confirmed, exitCode, registered, handlerTaken, exitStatus>>

\* lines 252-253: kill (tracer_save, SIGCONT), and the return
CleanupKill(t) ==
  /\ Runs(t) /\ at[t] = "c252"
  /\ Kill(t, tracer_save[t], "SIGCONT")
  /\ CleanupReturn(t)
  /\ UNCHANGED <<fine, standalone, realTracer, owner, thread_tid, cond, tracer, killArg,
                 swPid, tracer_save, elapsed, trapped,
                 confirmed, exitCode, registered, handlerTaken, exitStatus>>

----------------------------------------------------------------------------
(* exit (): the atexit handlers run in the calling thread while the other  *)
(* threads go on running; _exit then ends the process.  A second thread    *)
(* calling exit () while the first is still in it is undefined: the C      *)
(* library of the build lets it skip the handler already taken and end the *)
(* process at once, run the handler a second time, or wait for the first.  *)

ExitHandlers(t) ==
  /\ Runs(t) /\ at[t] = "exit"
  /\ IF ~registered
     THEN /\ at' = [at EXCEPT ![t] = "_exit"]
          /\ UNCHANGED handlerTaken
     ELSE IF ~handlerTaken
     THEN /\ at' = [at EXCEPT ![t] = "c245"]
          /\ handlerTaken' = TRUE
     ELSE /\ \E o \in {"_exit", "c245", "blocked"} : at' = [at EXCEPT ![t] = o]
          /\ UNCHANGED handlerTaken
  /\ UNCHANGED <<fine, standalone, realTracer, pc, owner, thread_tid, cond, tracer, killArg,
                 swPid, tracer_save, elapsed, gdbState, stopPending, trapped, signals,
                 confirmed, exitCode, registered, exitStatus>>

ExitProcess(t) ==
  /\ Runs(t) /\ at[t] = "_exit"
  /\ exitStatus' = exitCode[t]
  /\ UNCHANGED <<fine, standalone, realTracer, pc, at, owner, thread_tid, cond, tracer, killArg,
                 swPid, tracer_save, elapsed, gdbState, stopPending, trapped, signals,
                 confirmed, exitCode, registered, handlerTaken>>

----------------------------------------------------------------------------
(* main, lines 257-369.                                                    *)

\* The worker a line of the identifier wait (318-332) is about.
TidWorker(p) == IF p \in {"m318", "m320", "m320w", "m323"} THEN "thread1" ELSE "thread2"

\* lines 274-278: pthread_create of thread1, then of thread2
CreateThread ==
  /\ Runs("main") /\ at["main"] = "-" /\ pc["main"] \in {"m274", "m277"}
  /\ pc' = IF pc["main"] = "m274"
           THEN [pc EXCEPT !["main"] = "m277", !["thread1"] = "w92"]
           ELSE [pc EXCEPT !["main"] = "m280", !["thread2"] = "w92"]
  /\ UNCHANGED <<fine, standalone, realTracer, at, owner, thread_tid, cond, tracer, killArg,
                 swPid, tracer_save, elapsed, gdbState, stopPending, trapped, signals,
                 confirmed, exitCode, registered, handlerTaken, exitStatus>>

\* main with the test of line 280 lost: TracerPid: is read with -s too.
DiscoverAlways ==
  /\ Runs("main") /\ at["main"] = "-" /\ pc["main"] = "m280"
  /\ tracer' = realTracer
  /\ IF realTracer = 0 \/ realTracer # ParentPid
     THEN /\ BeginExit("main", "failure")
          /\ pc' = pc
     ELSE /\ pc' = [pc EXCEPT !["main"] = "m298"]
          /\ UNCHANGED <<at, exitCode, elapsed>>
  /\ UNCHANGED <<fine, standalone, realTracer, owner, thread_tid, cond, killArg,
                 swPid, tracer_save, gdbState, stopPending, trapped, signals,
                 confirmed, registered, handlerTaken, exitStatus>>

\* main with the test of line 288 lost: a tracer that is not the parent passes.
DiscoverNoParentTest ==
  /\ Runs("main") /\ at["main"] = "-" /\ pc["main"] = "m280"
  /\ IF standalone
     THEN /\ pc' = [pc EXCEPT !["main"] = "m298"]
          /\ UNCHANGED <<tracer, at, exitCode, elapsed>>
     ELSE /\ tracer' = realTracer
          /\ IF realTracer = 0
             THEN /\ BeginExit("main", "failure")
                  /\ pc' = pc
             ELSE /\ pc' = [pc EXCEPT !["main"] = "m298"]
                  /\ UNCHANGED <<at, exitCode, elapsed>>
  /\ UNCHANGED <<fine, standalone, realTracer, owner, thread_tid, cond, killArg,
                 swPid, tracer_save, gdbState, stopPending, trapped, signals,
                 confirmed, registered, handlerTaken, exitStatus>>

\* lines 280-293: tracer = proc_ulong ("/proc/self/status", "TracerPid:\t") and
\* the two tests; getppid () is ParentPid
Discover ==
  /\ Runs("main") /\ at["main"] = "-" /\ pc["main"] = "m280"
  /\ IF standalone
     THEN /\ pc' = [pc EXCEPT !["main"] = "m298"]
          /\ UNCHANGED <<tracer, at, exitCode, elapsed>>
     ELSE /\ tracer' = realTracer
          /\ IF realTracer = 0 \/ realTracer # ParentPid
             THEN /\ BeginExit("main", "failure")
                  /\ pc' = pc
             ELSE /\ pc' = [pc EXCEPT !["main"] = "m298"]
                  /\ UNCHANGED <<at, exitCode, elapsed>>
  /\ UNCHANGED <<fine, standalone, realTracer, owner, thread_tid, cond, killArg,
                 swPid, tracer_save, gdbState, stopPending, trapped, signals,
                 confirmed, registered, handlerTaken, exitStatus>>

\* line 298: atexit (cleanup)
Atexit ==
  /\ Runs("main") /\ at["main"] = "-" /\ pc["main"] = "m298"
  /\ registered' = TRUE
  /\ pc' = [pc EXCEPT !["main"] = "m302"]
  /\ UNCHANGED <<fine, standalone, realTracer, at, owner, thread_tid, cond, tracer, killArg,
                 swPid, tracer_save, elapsed, gdbState, stopPending, trapped, signals,
                 confirmed, exitCode, handlerTaken, exitStatus>>

\* lines 302 and 340: if (tracer)
TestTracer ==
  /\ Runs("main") /\ at["main"] = "-" /\ pc["main"] \in {"m302", "m340"}
  /\ pc' = [pc EXCEPT !["main"] =
              IF pc["main"] = "m302"
              THEN (IF tracer # 0 THEN "m304" ELSE "m309")
              ELSE (IF tracer # 0 THEN "m344" ELSE "m349")]
  /\ UNCHANGED <<fine, standalone, realTracer, at, owner, thread_tid, cond, tracer, killArg,
                 swPid, tracer_save, elapsed, gdbState, stopPending, trapped, signals,
                 confirmed, exitCode, registered, handlerTaken, exitStatus>>

\* line 304: the argument tracer of kill is read
ReadKillArg ==
  /\ Runs("main") /\ at["main"] = "-" /\ pc["main"] = "m304"
  /\ killArg' = tracer
  /\ pc' = [pc EXCEPT !["main"] = "m304k"]
  /\ UNCHANGED <<fine, standalone, realTracer, at, owner, thread_tid, cond, tracer,
                 swPid, tracer_save, elapsed, gdbState, stopPending, trapped, signals,
                 confirmed, exitCode, registered, handlerTaken, exitStatus>>

\* lines 304-305: kill (tracer, SIGSTOP); pid 0 names the own process group,
\* so the call succeeds then too
KillStop ==
  /\ Runs("main") /\ at["main"] = "-" /\ pc["main"] = "m304k"
  /\ Kill("main", killArg, "SIGSTOP")
  /\ pc' = [pc EXCEPT !["main"] = "m306"]
  /\ UNCHANGED <<fine, standalone, realTracer, at, owner, thread_tid, cond, tracer, killArg,
                 swPid, tracer_save, elapsed, trapped,
                 confirmed, exitCode, registered, handlerTaken, exitStatus>>

\* lines 313-314 and 353-354: the Start Gate and the Terminate Gate are released
MainUnlock ==
  /\ Runs("main") /\ at["main"] = "-" /\ pc["main"] \in {"m313", "m353"}
  /\ IF pc["main"] = "m313" THEN Unlock("main", "gdbstop_mutex", "m318")
                            ELSE Unlock("main", "terminate_mutex", "m356")
  /\ UNCHANGED <<fine, standalone, realTracer, at, thread_tid, cond, tracer, killArg,
                 swPid, tracer_save, elapsed, gdbState, stopPending, trapped, signals,
                 confirmed, exitCode, registered, handlerTaken>>

\* lines 318 and 326: if (threadN_tid == 0)
TestTid ==
  /\ Runs("main") /\ at["main"] = "-" /\ pc["main"] \in {"m318", "m326"}
  /\ pc' = [pc EXCEPT !["main"] =
              IF pc["main"] = "m318"
              THEN (IF thread_tid["thread1"] = 0 THEN "m320" ELSE "m326")
              ELSE (IF thread_tid["thread2"] = 0 THEN "m328" ELSE "m334")]
  /\ UNCHANGED <<fine, standalone, realTracer, at, owner, thread_tid, cond, tracer, killArg,
                 swPid, tracer_save, elapsed, gdbState, stopPending, trapped, signals,
                 confirmed, exitCode, registered, handlerTaken, exitStatus>>

\* lines 320 and 328: pthread_cond_wait releases threadN_tid_mutex and blocks
\* (EPERM, and so abort (), when main does not hold the mutex)
CondWait ==
  /\ Runs("main") /\ at["main"] = "-" /\ pc["main"] \in {"m320", "m328"}
  /\ LET w == TidWorker(pc["main"]) IN
     IF owner[TidMutex(w)] = "main"
     THEN /\ owner' = [owner EXCEPT ![TidMutex(w)] = "none"]
          /\ cond' = [cond EXCEPT ![w] = "blocked"]
          /\ pc' = [pc EXCEPT !["main"] = IF w = "thread1" THEN "m320w" ELSE "m328w"]
          /\ UNCHANGED exitStatus
     ELSE /\ Abort
          /\ UNCHANGED <<owner, cond, pc>>
  /\ UNCHANGED <<fine, standalone, realTracer, at, thread_tid, tracer, killArg,
                 swPid, tracer_save, elapsed, gdbState, stopPending, trapped, signals,
                 confirmed, exitCode, registered, handlerTaken>>

\* lines 320-321 and 328-329: the wait returns once the condition was signalled
\* and the mutex is taken again; only a signal wakes it
CondWake ==
  /\ Runs("main") /\ at["main"] = "-" /\ pc["main"] \in {"m320w", "m328w"}
  /\ LET w == TidWorker(pc["main"]) IN
     /\ cond[w] = "signalled"
     /\ owner[TidMutex(w)] = "none"
     /\ owner' = [owner EXCEPT ![TidMutex(w)] = "main"]
     /\ cond' = [cond EXCEPT ![w] = "idle"]
     /\ pc' = [pc EXCEPT !["main"] = IF w = "thread1" THEN "m323" ELSE "m331"]
  /\ UNCHANGED <<fine, standalone, realTracer, at, thread_tid, tracer, killArg,
                 swPid, tracer_save, elapsed, gdbState, stopPending, trapped, signals,
                 confirmed, exitCode, registered, handlerTaken, exitStatus>>

\* lines 323 and 331: assert (threadN_tid > 0)
AssertTid ==
  /\ Runs("main") /\ at["main"] = "-" /\ pc["main"] \in {"m323", "m331"}
  /\ IF thread_tid[TidWorker(pc["main"])] > 0
     THEN /\ pc' = [pc EXCEPT !["main"] = IF pc["main"] = "m323" THEN "m326" ELSE "m334"]
          /\ UNCHANGED exitStatus
     ELSE /\ Abort
          /\ pc' = pc
  /\ UNCHANGED <<fine, standalone, realTracer, at, owner, thread_tid, cond, tracer, killArg,
                 swPid, tracer_save, elapsed, gdbState, stopPending, trapped, signals,
                 confirmed, exitCode, registered, handlerTaken>>

\* lines 334-338: the identifiers are printed
PrintTids ==
  /\ Runs("main") /\ at["main"] = "-" /\ pc["main"] = "m334"
  /\ pc' = [pc EXCEPT !["main"] = "m340"]
  /\ UNCHANGED <<fine, standalone, realTracer, at, owner, thread_tid, cond, tracer, killArg,
                 swPid, tracer_save, elapsed, gdbState, stopPending, trapped, signals,
                 confirmed, exitCode, registered, handlerTaken, exitStatus>>

\* line 349: cleanup () is called explicitly
CallCleanup ==
  /\ Runs("main") /\ at["main"] = "-" /\ pc["main"] = "m349"
  /\ at' = [at EXCEPT !["main"] = "c245"]
  /\ UNCHANGED <<fine, standalone, realTracer, pc, owner, thread_tid, cond, tracer, killArg,
                 swPid, tracer_save, elapsed, gdbState, stopPending, trapped, signals,
                 confirmed, exitCode, registered, handlerTaken, exitStatus>>

\* main with pthread_join returning at once, whether or not the thread has
\* returned.
JoinNoWait ==
  /\ Runs("main") /\ at["main"] = "-" /\ pc["main"] \in {"m356", "m359"}
  /\ pc' = [pc EXCEPT !["main"] = IF pc["main"] = "m356" THEN "m359" ELSE "m368"]
  /\ UNCHANGED <<fine, standalone, realTracer, at, owner, thread_tid, cond, tracer, killArg,
                 swPid, tracer_save, elapsed, gdbState, stopPending, trapped, signals,
                 confirmed, exitCode, registered, handlerTaken, exitStatus>>

\* lines 356-360: pthread_join of thread1, then of thread2, returns once the
\* thread has returned
Join ==
  /\ Runs("main") /\ at["main"] = "-" /\ pc["main"] \in {"m356", "m359"}
  /\ pc[IF pc["main"] = "m356" THEN "thread1" ELSE "thread2"] = "done"
  /\ pc' = [pc EXCEPT !["main"] = IF pc["main"] = "m356" THEN "m359" ELSE "m368"]
  /\ UNCHANGED <<fine, standalone, realTracer, at, owner, thread_tid, cond, tracer, killArg,
                 swPid, tracer_save, elapsed, gdbState, stopPending, trapped, signals,
                 confirmed, exitCode, registered, handlerTaken, exitStatus>>

\* line 368: return EXIT_SUCCESS from main is exit (EXIT_SUCCESS)
MainReturn ==
  /\ Runs("main") /\ at["main"] = "-" /\ pc["main"] = "m368"
  /\ BeginExit("main", "success")
  /\ UNCHANGED <<fine, standalone, realTracer, pc, owner, thread_tid, cond, tracer, killArg,
                 swPid, tracer_save, gdbState, stopPending, trapped, signals,
                 confirmed, registered, handlerTaken, exitStatus>>

----------------------------------------------------------------------------
(* Outside the program.                                                    *)

\* The stop signal takes effect: the debugger's State: becomes "T (stopped)".
TracerStops ==
  /\ Alive /\ stopPending
  /\ gdbState' = "T (stopped)"
  /\ stopPending' = FALSE
  /\ UNCHANGED <<fine, standalone, realTracer, pc, at, owner, thread_tid, cond, tracer, killArg,
                 swPid, tracer_save, elapsed, trapped, signals,
                 confirmed, exitCode, registered, handlerTaken, exitStatus>>

\* A debugger that is not stopped services the trap and lets the thread go on.
TracerResumes(w) ==
  /\ Alive /\ trapped[w] /\ gdbState # "T (stopped)"
  /\ trapped' = [trapped EXCEPT ![w] = FALSE]
  /\ UNCHANGED <<fine, standalone, realTracer, pc, at, owner, thread_tid, cond, tracer, killArg,
                 swPid, tracer_save, elapsed, gdbState, stopPending, signals,
                 confirmed, exitCode, registered, handlerTaken, exitStatus>>

\* A second passes (CLOCK_MONOTONIC): it counts for every thread that is in a
\* bounded wait; past TIMEOUT the loop tests of lines 80 and 230 no longer tell
\* the values apart.
Tick ==
  /\ Alive
  /\ \E t \in Threads : InBoundedWait(t) /\ elapsed[t] < TIMEOUT(t)
  /\ elapsed' = [t \in Threads |->
                   IF InBoundedWait(t) /\ elapsed[t] < TIMEOUT(t)
                   THEN elapsed[t] + 1 ELSE elapsed[t]]
  /\ UNCHANGED <<fine, standalone, realTracer, pc, at, owner, thread_tid, cond, tracer, killArg,
                 swPid, tracer_save, gdbState, stopPending, trapped, signals,
                 confirmed, exitCode, registered, handlerTaken, exitStatus>>

----------------------------------------------------------------------------
Next ==
  \/ \E t \in Threads : LockStart(t)
  \/ \E t \in Threads : TryLock(t)
  \/ \E t \in Threads : LockClock(t)
  \/ \E t \in Threads : LockTimedOut(t)
  \/ \E w \in Workers : Publish(w)
  \/ \E w \in Workers : Signal(w)
  \/ \E w \in Workers : WorkerUnlock(w)
  \/ \E w \in Workers : ReadWatch(w)
  \/ \E w \in Workers : WorkerReturn(w)
  \/ CallStateWait
  \/ StateWaitStart
  \/ StateWaitPoll
  \/ StateWaitClock
  \/ StateWaitTimedOut
  \/ \E t \in Threads : CleanupTest(t)
  \/ \E t \in Threads : CleanupSave(t)
  \/ \E t \in Threads : CleanupClear(t)
  \/ \E t \in Threads : CleanupKill(t)
  \/ \E t \in Threads : ExitHandlers(t)
  \/ \E t \in Threads : ExitProcess(t)
  \/ CreateThread
  \/ Discover
  \/ Atexit
  \/ TestTracer
  \/ ReadKillArg
  \/ KillStop
  \/ MainUnlock
  \/ TestTid
  \/ CondWait
  \/ CondWake
  \/ AssertTid
  \/ PrintTids
  \/ CallCleanup
  \/ Join
  \/ MainReturn
  \/ TracerStops
  \/ \E w \in Workers : TracerResumes(w)
  \/ Tick

Spec == Init /\ [][Next]_vars

----------------------------------------------------------------------------
(* Vocabulary of the properties.                                           *)

\* The run is one under the debugger the program accepts: not standalone, and
\* TracerPid: is the parent.
Traced == ~standalone /\ realTracer = ParentPid

\* main has released the Start Gate (it is past line 313).
StartGateReleased ==
  pc["main"] \in {"m318", "m320", "m320w", "m323", "m326", "m328", "m328w", "m331",
                  "m334", "m340", "m344", "m346", "m349", "m353", "m356", "m359", "m368"}

\* main has returned from its explicit call of cleanup (it is past line 349).
ExplicitCleanupDone == pc["main"] \in {"m353", "m356", "m359", "m368"}

\* main has released the Terminate Gate (it is past line 353).
TerminateGateReleased == pc["main"] \in {"m356", "m359", "m368"}

\* The worker has read its watched cell (it is past line 101 / 126).
HasRead(w) == pc[w] \in {"w104", "w105", "w108", "done"}

\* The worker has passed the Terminate Gate (it is past line 104 / 129).
PassedTerminateGate(w) == pc[w] \in {"w105", "w108", "done"}

\* The worker has called pthread_cond_signal (it is past line 93 / 118).
HasSignalled(w) == pc[w] \notin {"new", "w92", "w93"}

\* The positions of the kill () calls with the given signal.
Sent(sig) == {i \in DOMAIN signals : signals[i].sig = sig}

----------------------------------------------------------------------------
(* C1: in a run under the debugger, main has released the Terminate Gate,  *)
(* or a worker has passed it, only after state_wait has returned for       *)
(* "T (tracing stop)" of thread 1 (line 344) and of thread 2 (line 346).   *)
C1_TerminateGateAfterBothTrapped ==
  (Traced /\ (TerminateGateReleased \/ \E w \in Workers : PassedTerminateGate(w)))
     => {"m344", "m346"} \subseteq confirmed

(* C2: in a run under the debugger, from the return of the state_wait of   *)
(* line 344 until a continue signal is sent thread 1 is in tracing stop,   *)
(* and from the return of the one of line 346 both threads are.            *)
C2_BothTrappedTogether ==
  (Traced /\ Sent("SIGCONT") = {}) =>
     /\ "m344" \in confirmed => trapped["thread1"]
     /\ "m346" \in confirmed => (trapped["thread1"] /\ trapped["thread2"])

\* Step 9 is complete, both workers are parked and nothing was resumed yet.
C2_Witness ==
  /\ Traced /\ Sent("SIGCONT") = {}
  /\ {"m344", "m346"} \subseteq confirmed
  /\ trapped["thread1"] /\ trapped["thread2"]
  /\ pc["main"] = "m349"

(* C3: in a run under the debugger, the Start Gate is released, and a      *)
(* worker has read its watched cell, only after the state_wait of line 306 *)
(* has returned for "T (stopped)" of the debugger.                         *)
C3_StartGateAfterTracerStopped ==
  (Traced /\ (StartGateReleased \/ \E w \in Workers : HasRead(w)))
     => "m306" \in confirmed

(* C4: a wait on a worker's ready-condition that main begins is woken by  *)
(* that worker's signal: main is never blocked in pthread_cond_wait (line  *)
(* 320 / 328) on a worker that has already made its pthread_cond_signal.   *)
C4_SignalNeverMissed ==
  \A w \in Workers : ~(Alive /\ cond[w] = "blocked" /\ HasSignalled(w))

(* C5: once the stop signal has been sent to the debugger, a process that  *)
(* has ended by an internal failure (exit (EXIT_FAILURE) or a failed       *)
(* assert) has sent the debugger a continue signal after the stop signal.  *)
C5_ResumedOnEveryFailure ==
  exitStatus \in {"failure", "abort"} =>
     \A i \in Sent("SIGSTOP") :
        signals[i].pid = ParentPid =>
           \E j \in Sent("SIGCONT") : j > i /\ signals[j].pid = ParentPid

C7_CleanupIdempotent ==
  /\ Cardinality({i \in Sent("SIGCONT") : signals[i].by = "main"}) <= 1
  /\ ExplicitCleanupDone => tracer = 0

\* main's explicit call has sent the continue signal and main is back in
\* cleanup, called by exit () after the return from main.
C7_Witness ==
  /\ exitCode["main"] = "success" /\ at["main"] = "c245"
  /\ \E i \in Sent("SIGCONT") : signals[i].by = "main"

----------------------------------------------------------------------------
(* Standalone runs (-s) with prompt threads: a second passes only while    *)
(* every thread is waiting for another one, so no thread loses its budget  *)
(* to a thread that could run and does not.                                *)

InitStandalone == Init /\ standalone /\ realTracer = 0

\* The thread cannot go on before another thread acts: it is not started, has
\* returned, polls a mutex another thread holds, is blocked in
\* pthread_cond_wait or pthread_join, or waits inside exit ().
Waiting(t) ==
  \/ pc[t] \in {"new", "done"}
  \/ at[t] = "blocked"
  \/ at[t] \in {"l71", "l76"} /\ owner[LockMutex(pc[t])] # "none"
  \/ at[t] = "-" /\ pc[t] \in {"m320w", "m328w"} /\ cond[TidWorker(pc[t])] # "signalled"
  \/ at[t] = "-" /\ pc[t] = "m356" /\ pc["thread1"] # "done"
  \/ at[t] = "-" /\ pc[t] = "m359" /\ pc["thread2"] # "done"

TickPrompt == Tick /\ \A t \in Threads : Waiting(t)

NextStandalone ==
  \/ \E t \in Threads : LockStart(t)
  \/ \E t \in Threads : TryLock(t)
  \/ \E t \in Threads : LockClock(t)
  \/ \E t \in Threads : LockTimedOut(t)
  \/ \E w \in Workers : Publish(w)
  \/ \E w \in Workers : Signal(w)
  \/ \E w \in Workers : WorkerUnlock(w)
  \/ \E w \in Workers : ReadWatch(w)
  \/ \E w \in Workers : WorkerReturn(w)
  \/ \E t \in Threads : CleanupTest(t)
  \/ \E t \in Threads : ExitHandlers(t)
  \/ \E t \in Threads : ExitProcess(t)
  \/ CreateThread
  \/ Discover
  \/ Atexit
  \/ TestTracer
  \/ MainUnlock
  \/ TestTid
  \/ CondWait
  \/ CondWake
  \/ AssertTid
  \/ PrintTids
  \/ CallCleanup
  \/ Join
  \/ MainReturn
  \/ TickPrompt

SpecStandalone == InitStandalone /\ [][NextStandalone]_vars

(* C9: a standalone run whose threads are scheduled promptly completes: if *)
(* the process has ended, it has ended with exit status 0.                 *)
C9_StandaloneExitsZero == exitStatus \in {"none", "success"}

(* C10: no thread stays blocked forever: as long as the process has not    *)
(* ended, some thread can take a step or a bounded wait is still running   *)
(* towards its ceiling.                                                    *)
C10_NeverStuck == Alive => ENABLED Next

----------------------------------------------------------------------------
(* C11: in a run without -s whose TracerPid: is 0 or is not the parent, no *)
(* signal is ever sent, neither gate is ever released, the process is      *)
(* never stuck while it lives, and it ends with failure status only.       *)
C11_BadTracerFailsQuietly ==
  (~standalone /\ realTracer # ParentPid) =>
     /\ signals = <<>>
     /\ ~StartGateReleased /\ ~TerminateGateReleased
     /\ owner["gdbstop_mutex"] \in {"none", "main"}
     /\ owner["terminate_mutex"] \in {"none", "main"}
     /\ exitStatus \in {"none", "failure"}
     /\ Alive => ENABLED Next

\* The process has ended at line 291 with another process than the parent
\* as its tracer.
C11_Witness ==
  /\ ~standalone /\ realTracer = OtherPid /\ tracer = OtherPid
  /\ exitStatus = "failure" /\ pc["main"] = "m280"

----------------------------------------------------------------------------
(* timed_mutex_lock on a mutex that is never released, with the clock of   *)
(* lines 66 and 76 at a finer grain than the tv_sec the test of line 80    *)
(* compares. mono is CLOCK_MONOTONIC in units of 1/TicksPerSecond s;       *)
(* start and now hold the readings of each thread.                         *)

TicksPerSecond == 2

\* tv_sec of a clock reading
Sec(c) == c \div TicksPerSecond

\* The caller of timed_mutex_lock and the thread that keeps the mutex.
LockCallers == {"main", "thread1"}
Holder(c) == IF c = "main" THEN "thread1" ELSE "main"
CallSite(c) == IF c = "main" THEN "m309" ELSE "w104"

\* The call is made at any phase of the running second; the other threads
\* take no step.
InitLock ==
  \E c \in LockCallers :
    /\ standalone = TRUE /\ realTracer = 0
    /\ pc = [t \in Threads |-> IF t = c THEN CallSite(c) ELSE "held"]
    /\ at = [t \in Threads |-> "-"]
    /\ owner = [m \in Mutexes |->
                  IF m = LockMutex(CallSite(c)) THEN Holder(c) ELSE "none"]
    /\ thread_tid = [w \in Workers |-> Tid(w)]
    /\ cond = [w \in Workers |-> "idle"]
    /\ tracer = 0 /\ killArg = 0 /\ swPid = 0
    /\ tracer_save = [t \in Threads |-> 0]
    /\ elapsed = [t \in Threads |-> 0]
    /\ gdbState = "S (sleeping)" /\ stopPending = FALSE
    /\ trapped = [w \in Workers |-> FALSE]
    /\ signals = <<>> /\ confirmed = {}
    /\ exitCode = [t \in Threads |-> "none"]
    /\ registered \in BOOLEAN /\ handlerTaken = FALSE
    /\ exitStatus = "none"
    /\ mono \in 0 .. TicksPerSecond - 1
    /\ start = [t \in Threads |-> 0]
    /\ now = [t \in Threads |-> 0]

\* line 66: clock_gettime (CLOCK_MONOTONIC, &start)
FineLockStart(t) ==
  /\ Runs(t) /\ at[t] = "-" /\ pc[t] \in LockSites
  /\ at' = [at EXCEPT ![t] = "l71"]
  /\ start' = [start EXCEPT ![t] = mono]
  /\ now' = [now EXCEPT ![t] = mono]
  /\ UNCHANGED <<mono, standalone, realTracer, pc, owner, thread_tid, cond, tracer, killArg,
                 swPid, tracer_save, elapsed, gdbState, stopPending, trapped, signals,
                 confirmed, exitCode, registered, handlerTaken, exitStatus>>

\* The loop with the test of line 80 off by one: <= for <.
FineLockClockLate(t) ==
  /\ Runs(t) /\ at[t] = "l76"
  /\ now' = [now EXCEPT ![t] = mono]
  /\ at' = [at EXCEPT ![t] = IF Sec(mono) - Sec(start[t]) <= TIMEOUT(t)
                             THEN "l71" ELSE "l82"]
  /\ UNCHANGED <<mono, start, standalone, realTracer, pc, owner, thread_tid, cond, tracer,
                 killArg, swPid, tracer_save, elapsed, gdbState, stopPending, trapped,
                 signals, confirmed, exitCode, registered, handlerTaken, exitStatus>>

\* lines 76-80: clock_gettime (CLOCK_MONOTONIC, &now) and
\* while (now.tv_sec - start.tv_sec < TIMEOUT)
FineLockClock(t) ==
  /\ Runs(t) /\ at[t] = "l76"
  /\ now' = [now EXCEPT ![t] = mono]
  /\ at' = [at EXCEPT ![t] = IF Sec(mono) - Sec(start[t]) < TIMEOUT(t)
                             THEN "l71" ELSE "l82"]
  /\ UNCHANGED <<mono, start, standalone, realTracer, pc, owner, thread_tid, cond, tracer,
                 killArg, swPid, tracer_save, elapsed, gdbState, stopPending, trapped,
                 signals, confirmed, exitCode, registered, handlerTaken, exitStatus>>

\* The clock advances by one unit while a caller is in the loop; a reading
\* more than a second past TIMEOUT tests as every later one does.
FineTick ==
  /\ Alive
  /\ \E t \in Threads : /\ at[t] \in {"l71", "l76"}
                        /\ mono - start[t] < (TIMEOUT(t) + 1) * TicksPerSecond
  /\ mono' = mono + 1
  /\ UNCHANGED <<start, now, standalone, realTracer, pc, at, owner, thread_tid, cond, tracer,
                 killArg, swPid, tracer_save, elapsed, gdbState, stopPending, trapped,
                 signals, confirmed, exitCode, registered, handlerTaken, exitStatus>>

NextLock ==
  \/ \E t \in Threads : FineLockStart(t)
  \/ \E t \in Threads : TryLock(t)
  \/ \E t \in Threads : FineLockClock(t)
  \/ \E t \in Threads : LockTimedOut(t)
  \/ \E t \in Threads : ExitHandlers(t)
  \/ \E t \in Threads : CleanupTest(t)
  \/ \E t \in Threads : ExitProcess(t)
  \/ FineTick

SpecLock == InitLock /\ [][NextLock]_vars

\* The time between the reading of line 66 and the last reading of line 76.
Waited(t) == now[t] - start[t]
Budget(t) == TIMEOUT(t) * TicksPerSecond
InLockLoop(t) == at[t] \in {"l71", "l76"}
TimedOut(t) == at[t] = "l82" \/ exitCode[t] = "failure"
LockNeverReturns ==
  /\ \A t \in Threads : pc[t] \in LockSites \cup {"held"}
  /\ \A m \in Mutexes : \A t \in Threads : owner[m] = t => pc[t] = "held"
LockFailsOnly == exitStatus \in {"none", "failure"}

(* C12 as stated: on a mutex that is never released timed_mutex_lock never *)
(* returns, ends the process with failure only, times out only when the    *)
(* whole budget (10 s in main, 15 s in a worker) has passed since the call, *)
(* and is out of the loop at the first reading of the clock after that.    *)
C12_ExactlyAtBudget ==
  /\ LockNeverReturns /\ LockFailsOnly
  /\ \A t \in Threads :
       /\ TimedOut(t) => Waited(t) >= Budget(t)
       /\ InLockLoop(t) => Waited(t) < Budget(t)

(* C12 amended: ... it times out only when TIMEOUT boundaries of whole     *)
(* seconds lie between the call and the reading, which is more than        *)
(* TIMEOUT - 1 seconds but can be less than TIMEOUT seconds; a reading     *)
(* taken TIMEOUT seconds or more after the call always leaves the loop.    *)
C12_WithinSecondOfBudget ==
  /\ LockNeverReturns /\ LockFailsOnly
  /\ \A t \in Threads :
       /\ TimedOut(t) => /\ Sec(now[t]) - Sec(start[t]) >= TIMEOUT(t)
                         /\ Waited(t) > Budget(t) - TicksPerSecond
       /\ InLockLoop(t) => Waited(t) < Budget(t)

\* A worker's call and main's call have both ended the process by time-out,
\* the reading less than TIMEOUT seconds after the call.
C12_Witness ==
  \E t \in Threads : /\ exitStatus = "failure" /\ exitCode[t] = "failure"
                     /\ Waited(t) < Budget(t)

----------------------------------------------------------------------------
(* C13: termination by time-out always happens in the main task: no worker *)
(* leaves timed_mutex_lock by its time-out, whatever main is doing.        *)
C13_TimeoutOnlyInMain ==
  \A w \in Workers : at[w] # "l82" /\ exitCode[w] = "none"

----------------------------------------------------------------------------
\* The line a worker goes to from each line of threadN_func.
WorkerOrder(p) ==
  CASE p = "new"  -> "w92"
    [] p = "w92"  -> "w93"
    [] p = "w93"  -> "w97"
    [] p = "w97"  -> "w98"
    [] p = "w98"  -> "w101"
    [] p = "w101" -> "w104"
    [] p = "w104" -> "w105"
    [] p = "w105" -> "w108"
    [] p = "w108" -> "done"
    [] p = "done" -> "done"

Held(t) == {m \in Mutexes : owner[m] = t}

\* A worker holds gdbstop_mutex only between lines 97 and 98, terminate_mutex
\* only between 104 and 105, and never another mutex.
WorkerLocks ==
  \A w \in Workers :
     /\ Held(w) = IF pc[w] = "w98" THEN {"gdbstop_mutex"}
                  ELSE IF pc[w] = "w105" THEN {"terminate_mutex"} ELSE {}
     /\ Cardinality(Held(w)) <= 1
     /\ pc[w] = "w101" => Held(w) = {}
     /\ \A v \in Workers : owner[TidMutex(v)] # w

\* Every step leaves a worker where it is or takes it to the next line; it
\* signals only in the step from line 93, reads its watched cell only in the
\* step from line 101, and takes or gives up a mutex only in the steps into
\* and out of lines 98 and 105.
WorkerStep ==
  \A w \in Workers :
     /\ pc'[w] \in {pc[w], WorkerOrder(pc[w])}
     /\ pc'[w] = pc[w] => Held(w)' = Held(w)
     /\ (thread_tid'[w] # thread_tid[w]) => (pc[w] = "w92" /\ pc'[w] = "w93")
     /\ (pc[w] = "w92" /\ pc'[w] = "w93") => thread_tid'[w] = Tid(w)
     /\ (pc[w] = "w93" /\ pc'[w] = "w97" /\ cond[w] = "blocked") => cond'[w] = "signalled"
     /\ (cond[w] = "blocked" /\ cond'[w] = "signalled") => (pc[w] = "w93" /\ pc'[w] = "w97")
     /\ (~trapped[w] /\ trapped'[w]) => (pc[w] = "w101" /\ pc'[w] = "w104")

(* C14: each worker goes through publish, signal (once), lock and unlock   *)
(* gdbstop_mutex, read its watched cell (once), lock and unlock            *)
(* terminate_mutex, return, in that order; it holds at most one mutex,     *)
(* none while it reads the cell, and never a threadN_tid_mutex.            *)
C14_WorkerOrderAndLocks == [] WorkerLocks /\ [][WorkerStep]_vars

\* Both workers have gone through all their steps and returned.
C14_Witness == \A w \in Workers : pc[w] = "done" /\ thread_tid[w] = Tid(w)

----------------------------------------------------------------------------
\* A thread has left a bounded wait by its time-out, or has called
\* exit (EXIT_FAILURE).
Failed(t) == at[t] \in {"l82", "s232"} \/ exitCode[t] = "failure"

(* C15: the process ends with status 0 only when main has reached its      *)
(* return after both joins, both workers have returned, terminate_mutex    *)
(* has been released, and no thread has timed out or failed.               *)
C15_SuccessOnlyOnCompletion ==
  exitStatus = "success" =>
     /\ pc["main"] = "m368" /\ exitCode["main"] = "success"
     /\ \A w \in Workers : pc[w] = "done" /\ PassedTerminateGate(w)
     /\ TerminateGateReleased /\ owner["terminate_mutex"] = "none"
     /\ \A t \in Threads : ~Failed(t)

\* A run has ended with status 0.
C15_Witness == exitStatus = "success" /\ pc["main"] = "m368"

----------------------------------------------------------------------------
\* The thread is in state_wait, which reads /proc/<pid>/status.
InStateWait(t) == at[t] \in {"s205", "s213", "s220", "s232"}

\* The thread is in the body of if (tracer) of cleanup.
InCleanupBody(t) == at[t] \in {"c248", "c250", "c252"}

(* C16: with -s tracer is 0 in every state, also when a debugger is        *)
(* attached; no signal is sent, TracerPid: is not read, state_wait is not  *)
(* called, and both the explicit and the exit-time call of cleanup return  *)
(* at the test of line 245.                                                *)
C16_StandaloneTouchesNoTracer ==
  standalone =>
     /\ tracer = 0 /\ killArg = 0 /\ swPid = 0
     /\ signals = <<>> /\ confirmed = {}
     /\ pc["main"] \notin {"m304", "m304k", "m306", "m344", "m346"}
     /\ \A t \in Threads : ~InStateWait(t) /\ ~InCleanupBody(t)
     /\ gdbState = "S (sleeping)" /\ ~stopPending

\* A run with -s under a debugger has ended after the explicit call of
\* cleanup and its call as the exit handler.
C16_Witness ==
  /\ standalone /\ realTracer = ParentPid
  /\ ExplicitCleanupDone /\ handlerTaken /\ exitStatus = "success"

----------------------------------------------------------------------------
\* The debugger is stopped, or about to be, by the SIGSTOP of line 304.
TracerHeld == stopPending \/ gdbState = "T (stopped)"

(* C17: in a traced run the SIGCONT has been sent to the debugger when     *)
(* main releases terminate_mutex, and no worker is past line 104 while the *)
(* debugger is still stopped by the SIGSTOP of line 304.                   *)
C17_ContinueBeforeTerminateGate ==
  Traced =>
     /\ TerminateGateReleased => Sent("SIGCONT") # {}
     /\ \A w \in Workers : PassedTerminateGate(w) => ~TracerHeld

----------------------------------------------------------------------------
\* The mutex a thread is about to unlock, or to hand to pthread_cond_wait,
\* at its line; "none" at every other line.
UnlockedAt(t) ==
  CASE t = "main" /\ pc[t] = "m313"                -> "gdbstop_mutex"
    [] t = "main" /\ pc[t] = "m353"                -> "terminate_mutex"
    [] t = "main" /\ pc[t] = "m320"                -> "thread1_tid_mutex"
    [] t = "main" /\ pc[t] = "m328"                -> "thread2_tid_mutex"
    [] t \in Workers /\ pc[t] = "w98"              -> "gdbstop_mutex"
    [] t \in Workers /\ pc[t] = "w105"             -> "terminate_mutex"
    [] OTHER                                       -> "none"

(* C18: a mutex has one holder at most: a thread that is about to unlock a *)
(* mutex holds it, a thread that calls timed_mutex_lock on a mutex does    *)
(* not hold it, and no assert on the result of pthread_mutex_unlock,       *)
(* pthread_cond_wait or pthread_mutex_trylock fails: the only abort is the *)
(* one of state_wait's asprintf.                                           *)
C18_UnlockByHolder ==
  /\ \A t \in Threads : UnlockedAt(t) # "none" => owner[UnlockedAt(t)] = t
  /\ \A t \in Threads : pc[t] \in LockSites => owner[LockMutex(pc[t])] # t
  /\ \A m \in Mutexes : owner[m] \in Threads \cup {"none"}
  /\ exitStatus = "abort" => at["main"] = "s205"

\* One worker holds gdbstop_mutex and is about to unlock it while the other
\* has found it busy.
C18_Witness ==
  \E w \in Workers : \E v \in Workers \ {w} :
     /\ pc[w] = "w98" /\ owner["gdbstop_mutex"] = w
     /\ pc[v] = "w97" /\ at[v] = "l76"

----------------------------------------------------------------------------
(* C19: the SIGSTOP of line 304 and the state_wait of line 306 are given   *)
(* the tracer that lines 280-293 validated: never process 0, also when a   *)
(* worker's exit runs cleanup between main's test of line 302 and main's   *)
(* reads of tracer at lines 304 and 306.                                   *)
C19_StopTargetsTracer ==
  /\ \A i \in Sent("SIGSTOP") : signals[i].pid = ParentPid
  /\ (pc["main"] = "m304k") => killArg = ParentPid
  /\ (pc["main"] = "m306" /\ InStateWait("main")) => swPid = ParentPid

(* C20: every SIGCONT the program sends comes after its SIGSTOP.           *)
C20_ContinueAfterStop ==
  \A i \in Sent("SIGCONT") : \E j \in Sent("SIGSTOP") : j < i

====
